---- MODULE Spec2Model ----
(***************************************************************************)
(* A model of shortest_paths.py: the StatsPatch context manager that       *)
(* replaces networkx's AdjacencyView.__getitem__ to trace a search, the    *)
(* rendering functions plot_path / animate_path, and the merged station    *)
(* table all_stations / pos with the Station pretty-printer.               *)
(***************************************************************************)
EXTENDS Integers, Sequences, FiniteSets, TLC

----------------------------------------------------------------------------
(* Bounds of the model *)

\* total number of __enter__ calls in a behaviour
MaxEnters == 2
\* total number of adjacency lookups in a behaviour
MaxLookups == 2
\* number of distinct node keys (stop ids) that are looked up
NumNodes == 2

\* number of rows of one line's stops.txt
MaxStops == 2
\* length of the search trace of a solution
MaxTrace == 2
\* Python's recursion limit, counted in frames of new_view_getitem; beyond
\* the number of instances, so that a chain of distinct wrappers always
\* reaches the library's accessor
RecursionLimit == 4
\* number of rendering calls in a behaviour
MaxDraws == 2

\* the StatsPatch instances that exist
Patches == {1, 2}
Nodes == 1..NumNodes
\* the AdjacencyView objects lookups are made on: g.adj of two graphs
Views == {"g", "h"}
\* the threads of the parallel specification; thread q uses instance q
Queries == {1, 2}

----------------------------------------------------------------------------
(* Function objects that AdjacencyView.__getitem__ can be bound to *)

\* networkx's own accessor
Original == <<"AdjacencyView.__getitem__", 0>>
\* the closure new_view_getitem made by __enter__ of instance p; every
\* closure of p reads p's attributes when called, so they behave alike
Wrapper(p) == <<"new_view_getitem", p>>
\* the attribute _old_view_getitem does not exist before the first __enter__
Unset == <<"unset", 0>>

\* what networkx's accessor returns for view[n]
AtlasView(view, n) == <<"AtlasView", view, n>>
RecursionError == <<"RecursionError", "-", 0>>
NoValue == <<"None", "-", 0>>

VARIABLES
    getitem,            \* nx.classes.coreviews.AdjacencyView.__getitem__
    g,                  \* g[p]: self.g of instance p
    counter,            \* counter[p]: self.counter
    search_path,        \* search_path[p]: self.search_path
    old_view_getitem,   \* old_view_getitem[p]: self._old_view_getitem
    active,             \* the contexts entered and not yet exited, innermost last
    during,             \* during[p]: keys looked up while p was in active
    nlookups,           \* number of lookups made so far
    nenters,            \* number of __enter__ calls made so far
    last,               \* the last call made and what it returned or raised
    pc,                 \* pc[q]: position of thread q in its with-block
    own,                \* own[q]: keys looked up by thread q
    archive,            \* the entries of data/RATP_GTFS_LINES.zip, in order
    loaded,             \* number of archive entries the loading loop has handled
    stations,           \* the dict stations: line -> rows of stops.txt
    all_stations,       \* the merged table, indexed by stop_id
    pos,                \* the dict pos: stop_id -> projected coordinate
    fpc,                \* position of the module's top-level code
    station,            \* the Station object built last, and its repr
    graph,              \* the graph g handed to plot_path: attributes of its edges
    sol,                \* sol[r]: the solution dict of run r (path and stats)
    ax,                 \* ax[r]: what has been drawn on the axes of run r
    animate,            \* whether animate_path has returned its closure
    rlast,              \* the last rendering call
    ndraws              \* number of rendering calls made so far

patchVars == <<getitem, g, counter, search_path, old_view_getitem,
               active, during, nlookups, nenters, last>>
threadVars == <<pc, own>>
feedVars == <<archive, loaded, stations, all_stations, pos, fpc, station>>
renderVars == <<graph, sol, ax, animate, rlast, ndraws>>
vars == <<getitem, g, counter, search_path, old_view_getitem,
          active, during, nlookups, nenters, last, pc, own,
          archive, loaded, stations, all_stations, pos, fpc, station,
          graph, sol, ax, animate, rlast, ndraws>>

----------------------------------------------------------------------------
(* StatsPatch *)

\* StatsPatch.__init__ for every instance, given the graphs passed in
StatsPatchInit(gs) ==
    /\ g = gs
    /\ counter = [p \in Patches |-> 0]
    /\ search_path = [p \in Patches |-> <<>>]
    /\ old_view_getitem = [p \in Patches |-> Unset]

\* Calling the function object f as f(view, n) with depth wrapper frames on
\* the stack.  st carries the instances' counter and search_path and the
\* returned value.  cut says where the interpreter raises RecursionError
\* once the limit is hit: on pushing the next frame, or on the append call
\* of the deepest frame (interpreters that count C calls in the same depth).
RECURSIVE CallFn(_, _, _, _, _, _)
CallFn(f, view, n, depth, st, cut) ==
    IF f = Original
    THEN [st EXCEPT !.ret = AtlasView(view, n)]
    ELSE LET self == f[2] IN
         IF depth >= RecursionLimit
         THEN [st EXCEPT !.ret = RecursionError]
         ELSE LET c1 == [st EXCEPT !.counter[self] = @ + 1] IN
              IF depth = RecursionLimit - 1 /\ cut = "append"
              THEN [c1 EXCEPT !.ret = RecursionError]
              ELSE LET c2 == [c1 EXCEPT !.search_path[self] = Append(@, n)]
                   IN  CallFn(old_view_getitem[self], view, n, depth + 1, c2, cut)

\* the last occurrence of p removed from the stack of active contexts
RECURSIVE RemoveLast(_, _)
RemoveLast(s, p) ==
    IF s = <<>> THEN <<>>
    ELSE IF s[Len(s)] = p THEN SubSeq(s, 1, Len(s) - 1)
    ELSE Append(RemoveLast(SubSeq(s, 1, Len(s) - 1), p), s[Len(s)])

InStack(s, p) == \E i \in 1..Len(s) : s[i] = p

\* __enter__ that saves the accessor but does not install the wrapper
EnterKeepsAccessor(p) ==
    /\ nenters < MaxEnters
    /\ nenters' = nenters + 1
    /\ old_view_getitem' = [old_view_getitem EXCEPT ![p] = getitem]
    /\ getitem' = getitem
    /\ active' = Append(active, p)
    /\ last' = [op |-> "enter", patch |-> p, view |-> "-", key |-> 0,
                ret |-> NoValue]
    /\ UNCHANGED <<g, counter, search_path, during, nlookups>>

\* StatsPatch.__enter__
Enter(p) ==
    /\ nenters < MaxEnters
    /\ nenters' = nenters + 1
    /\ old_view_getitem' = [old_view_getitem EXCEPT ![p] = getitem]
    /\ getitem' = Wrapper(p)
    /\ active' = Append(active, p)
    /\ last' = [op |-> "enter", patch |-> p, view |-> "-", key |-> 0,
                ret |-> NoValue]
    /\ UNCHANGED <<g, counter, search_path, during, nlookups>>

\* StatsPatch.__exit__; exc tells whether the body raised.  The method
\* returns None, so the exception propagates.  Before any __enter__ the
\* attribute is missing and the assignment raises AttributeError.
Exit(p, exc) ==
    /\ IF old_view_getitem[p] = Unset
       THEN /\ last' = [op |-> "exit", patch |-> p, view |-> "-", key |-> 0,
                        ret |-> <<"AttributeError", "-", 0>>]
            /\ UNCHANGED <<getitem, active>>
       ELSE /\ getitem' = old_view_getitem[p]
            /\ active' = RemoveLast(active, p)
            /\ last' = [op |-> "exit", patch |-> p, view |-> "-", key |-> 0,
                        ret |-> IF exc THEN <<"reraised", "-", 0>> ELSE NoValue]
    /\ UNCHANGED <<g, counter, search_path, old_view_getitem, during,
                   nlookups, nenters>>

\* view[n] evaluated by any caller: AdjacencyView.__getitem__(view, n)
Lookup(view, n, cut) ==
    /\ nlookups < MaxLookups
    /\ LET st == CallFn(getitem, view, n, 0,
                        [counter |-> counter, search_path |-> search_path,
                         ret |-> NoValue], cut)
       IN  /\ counter' = st.counter
           /\ search_path' = st.search_path
           /\ last' = [op |-> "lookup", patch |-> 0, view |-> view, key |-> n,
                        ret |-> st.ret]
    /\ during' = [p \in Patches |->
                    IF InStack(active, p) THEN Append(during[p], n) ELSE during[p]]
    /\ nlookups' = nlookups + 1
    /\ UNCHANGED <<getitem, g, old_view_getitem, active, nenters>>

InitPatch ==
    /\ getitem = Original
    /\ StatsPatchInit([p \in Patches |-> "g"])
    /\ active = <<>>
    /\ during = [p \in Patches |-> <<>>]
    /\ nlookups = 0
    /\ nenters = 0
    /\ last = [op |-> "init", patch |-> 0, view |-> "-", key |-> 0,
               ret |-> NoValue]

InitThreads ==
    /\ pc = [q \in Queries |-> "start"]
    /\ own = [q \in Queries |-> <<>>]

Cuts == {"frame", "append"}

----------------------------------------------------------------------------
(* The station tables built by the module's top-level code *)

\* a line number such as METRO_1, kept as the two parts around the "_"
Lines == << <<"METRO", "1">>, <<"RER", "A">> >>
\* an archive entry that is not a metro or RER line
OtherEntry == [name |-> <<"BUS", "20">>, stops |-> <<>>]

StopNames == {"Chatelet", "Nation"}
\* (stop_lon, stop_lat) of a row of stops.txt
LonLats == {<<2, 48>>, <<3, 49>>}

StopRows ==
    [stop_id : Nodes, stop_name : StopNames, stop_lon : {2, 3}, stop_lat : {48, 49}]

\* the stops.txt files of the feeds: at most MaxStops rows, a stop_id at most
\* once in one file, coordinates among LonLats
StopsFiles ==
    {f \in UNION {[1..k -> StopRows] : k \in 1..MaxStops} :
        /\ \A i, j \in 1..Len(f) : i # j => f[i].stop_id # f[j].stop_id
        /\ \A i \in 1..Len(f) : <<f[i].stop_lon, f[i].stop_lat>> \in LonLats}

\* re.match('.*(METRO_\d+b?|RER_\w).zip', z.filename)
Match(name) == name[1] \in {"METRO", "RER"}

\* d[k] = v on a dict kept as the sequence of its items in insertion order
RECURSIVE DictSet(_, _, _)
DictSet(d, k, v) ==
    IF d = <<>> THEN <<[key |-> k, value |-> v]>>
    ELSE IF d[1].key = k THEN <<[key |-> k, value |-> v]>> \o Tail(d)
    ELSE <<d[1]>> \o DictSet(Tail(d), k, v)

\* value.assign(line=key) for the rows of one line
AssignLine(rows, line) ==
    [i \in 1..Len(rows) |->
        [stop_id |-> rows[i].stop_id, stop_name |-> rows[i].stop_name,
         stop_lon |-> rows[i].stop_lon, stop_lat |-> rows[i].stop_lat,
         line |-> line]]

\* pd.concat([...]).set_index('stop_id'): the rows of every line, in the
\* order of the dict; the index is not checked for duplicates
RECURSIVE Concat(_)
Concat(d) ==
    IF d = <<>> THEN <<>>
    ELSE AssignLine(d[1].value, d[1].key) \o Concat(Tail(d))

\* the projection of pyproj.Proj(init='EPSG:2154'), which is injective; an
\* affine map stands for it
Lambert93(lon, lat) == <<600000 + 73000 * (lon - 2), 6800000 + 111000 * (lat - 48)>>

\* dict((id_, (x_, y_)) for ... in zip(index, x, y)): a later item with the
\* same key replaces the earlier one
RECURSIVE PosDict(_)
PosDict(rows) ==
    IF rows = <<>> THEN <<>>
    ELSE LET rest == PosDict(SubSeq(rows, 1, Len(rows) - 1))
             r == rows[Len(rows)]
         IN  DictSet(rest, r.stop_id, Lambert93(r.stop_lon, r.stop_lat))

HasKey(d, k) == \E i \in 1..Len(d) : d[i].key = k
Get(d, k) == d[CHOOSE i \in 1..Len(d) : d[i].key = k].value

\* all_stations.loc[id_]: the rows whose index is id_
Loc(table, id) == SelectSeq(table, LAMBDA r : r.stop_id = id)

\* a column of .loc[id_]: a scalar for one row, a Series for several
Column(rows, col) ==
    [kind |-> IF Len(rows) = 1 THEN "scalar" ELSE "Series",
     values |-> [i \in 1..Len(rows) |-> rows[i][col]]]

NoPrint == <<"-", "-">>
NoStation == [id |-> 0, name |-> Column(<<>>, "stop_name"),
              line |-> Column(<<>>, "line"), raised |-> "-", repr |-> NoPrint]

\* Station.__init__: KeyError when the table has no row for id_
StationNew(table, id) ==
    IF Loc(table, id) = <<>>
    THEN [NoStation EXCEPT !.id = id, !.raised = "KeyError"]
    ELSE [id |-> id, name |-> Column(Loc(table, id), "stop_name"),
          line |-> Column(Loc(table, id), "line"), raised |-> "-",
          repr |-> NoPrint]

\* Station.__repr__: name and the part of the line after "_"; a Series has
\* no split method
StationRepr(st) ==
    IF st.line.kind = "scalar"
    THEN [st EXCEPT !.repr = <<st.name.values[1], st.line.values[1][2]>>]
    ELSE [st EXCEPT !.raised = "AttributeError"]

\* one round of the loop over archive.filelist
LoadEntry ==
    /\ fpc = "load"
    /\ loaded < Len(archive)
    /\ loaded' = loaded + 1
    /\ LET z == archive[loaded + 1] IN
         IF Match(z.name)
         THEN stations' = DictSet(stations, z.name, z.stops)
         ELSE stations' = stations
    /\ UNCHANGED <<archive, all_stations, pos, fpc, station>>

\* all_stations = pd.concat(...).set_index('stop_id')
MergeStations ==
    /\ fpc = "load"
    /\ loaded = Len(archive)
    /\ all_stations' = Concat(stations)
    /\ fpc' = "project"
    /\ UNCHANGED <<archive, loaded, stations, pos, station>>

\* x, y = Lambert93(...); pos = dict(...)
ProjectStations ==
    /\ fpc = "project"
    /\ pos' = PosDict(all_stations)
    /\ fpc' = "ready"
    /\ UNCHANGED <<archive, loaded, stations, all_stations, station>>

\* Station(id_)
NewStation ==
    /\ fpc = "ready"
    /\ \E id \in Nodes : station' = StationNew(all_stations, id)
    /\ UNCHANGED <<archive, loaded, stations, all_stations, pos, fpc>>

\* repr(station)
ReprStation ==
    /\ fpc = "ready"
    /\ station.id # 0 /\ station.raised = "-" /\ station.repr = NoPrint
    /\ station' = StationRepr(station)
    /\ UNCHANGED <<archive, loaded, stations, all_stations, pos, fpc>>

\* the state before the loading loop, for the feeds in arch
InitFeed(arch) ==
    /\ archive = arch
    /\ loaded = 0
    /\ stations = <<>>
    /\ all_stations = <<>>
    /\ pos = <<>>
    /\ fpc = "load"
    /\ station = NoStation

\* a feed in which every stop_id is under one line
SmallArchive ==
    << [name |-> Lines[1],
        stops |-> <<[stop_id |-> 1, stop_name |-> "Chatelet",
                     stop_lon |-> 2, stop_lat |-> 48]>>],
       [name |-> Lines[2],
        stops |-> <<[stop_id |-> 2, stop_name |-> "Nation",
                     stop_lon |-> 3, stop_lat |-> 49]>>] >>

\* the stop ids of that feed
StopIds == {1, 2}

\* the state once the module is imported, for the feeds in arch
Imported(arch) ==
    LET d == [i \in 1..Len(arch) |-> [key |-> arch[i].name, value |-> arch[i].stops]]
    IN  /\ archive = arch
        /\ loaded = Len(arch)
        /\ stations = d
        /\ all_stations = Concat(d)
        /\ pos = PosDict(Concat(d))
        /\ fpc = "ready"
        /\ station = NoStation

----------------------------------------------------------------------------
(* Rendering: plot_path, animate_path and the frames of its closure *)

\* the two runs whose drawings are compared
Runs == {"a", "b"}

\* the edges of g, and the attributes plot_path reads from them
Edges == {{u, v} : u, v \in StopIds} \ {{u} : u \in StopIds}
EdgeAttrs == {[color |-> "#f2c931", type |-> "METRO"],
              [color |-> "lightgrey", type |-> "CONNECTION"]}

\* the simple paths over the stations, and the search traces
Paths ==
    {q \in UNION {[1..k -> StopIds] : k \in 1..Cardinality(StopIds)} :
        \A i, j \in 1..Len(q) : i # j => q[i] # q[j]}
Traces == UNION {[1..k -> StopIds] : k \in 0..MaxTrace}

\* f"{station!r}"
ReprOf(st) == StationRepr(st).repr

\* ax.plot(*list(zip(*[pos[orig.id], pos[dest.id]])), color=..., marker='.')
PlotLine(o, d, color) ==
    [kind |-> "plot", xs |-> <<Get(pos, o)[1], Get(pos, d)[1]>>,
     ys |-> <<Get(pos, o)[2], Get(pos, d)[2]>>, text |-> NoPrint,
     style |-> color]

\* ax.text(*pos[id], label, ...): style tells the alignment given
Text(id, label, style) ==
    [kind |-> "text", xs |-> <<Get(pos, id)[1]>>, ys |-> <<Get(pos, id)[2]>>,
     text |-> label, style |-> style]

\* ax.scatter(*list(zip(*list(pos[a] for a in ids))), ...)
Scatter(ids, marker) ==
    [kind |-> "scatter", xs |-> [i \in 1..Len(ids) |-> Get(pos, ids[i])[1]],
     ys |-> [i \in 1..Len(ids) |-> Get(pos, ids[i])[2]], text |-> NoPrint,
     style |-> marker]

\* the loop of plot_path over zip(path, path[1:]), from index ix on
RECURSIVE PlotSegments(_, _, _)
PlotSegments(gr, path, ix) ==
    IF ix >= Len(path) THEN <<>>
    ELSE LET orig == path[ix]
             dest == path[ix + 1]
             e == gr[{orig.id, dest.id}]
         IN  <<PlotLine(orig.id, dest.id, e.color)>>
             \o (IF e.type = "CONNECTION"
                 THEN <<Text(orig.id, ReprOf(path[ix]), "right-top"),
                        Text(dest.id, ReprOf(path[ix + 1]), "default")>>
                 ELSE <<>>)
             \o PlotSegments(gr, path, ix + 1)

\* what plot_path(ax, g, sol) draws
plot_path(gr, s) ==
    PlotSegments(gr, s.path, 1)
    \o <<Text(s.path[1].id, ReprOf(s.path[1]), "right-top"),
         Text(s.path[Len(s.path)].id, ReprOf(s.path[Len(s.path)]), "default")>>

\* what animate_path(ax, sol) draws before it returns the closure
animate_path(s) ==
    <<Text(s.path[1].id, ReprOf(s.path[1]), "right-top"),
      Scatter(<<s.path[Len(s.path)].id>>, "^"),
      Text(s.path[Len(s.path)].id, ReprOf(s.path[Len(s.path)]), "default")>>

\* search_path[:i+1]
Prefix(t, i) == SubSeq(t, 1, IF i + 1 < Len(t) THEN i + 1 ELSE Len(t))

\* a frame drawn from the stations of the path instead of the search trace
AnimateFrameOfPath(s, i) ==
    <<Scatter(Prefix([k \in 1..Len(s.path) |-> s.path[k].id], i), "o")>>

\* what the frame animate(i) draws; with an empty prefix scatter is called
\* without x and y and raises TypeError
AnimateFrame(s, i) ==
    IF Prefix(s.stats.search_path, i) = <<>> THEN <<>>
    ELSE <<Scatter(Prefix(s.stats.search_path, i), "o")>>

Draw(op, i, new) ==
    /\ ndraws < MaxDraws
    /\ ndraws' = ndraws + 1
    /\ ax' = [r \in Runs |-> ax[r] \o new[r]]
    /\ rlast' = [op |-> op, frame |-> i, from |-> [r \in Runs |-> Len(ax[r])]]
    /\ UNCHANGED <<graph, sol>>

PlotPath ==
    /\ Draw("plot_path", 0, [r \in Runs |-> plot_path(graph, sol[r])])
    /\ UNCHANGED animate

AnimatePath ==
    /\ Draw("animate_path", 0, [r \in Runs |-> animate_path(sol[r])])
    /\ animate' = TRUE

Animate ==
    /\ animate
    /\ \E i \in 0..(MaxTrace - 1) :
          Draw("animate", i, [r \in Runs |-> AnimateFrame(sol[r], i)])
    /\ UNCHANGED animate

\* no solution yet
RenderIdle ==
    /\ graph = [e \in Edges |-> [color |-> "#f2c931", type |-> "METRO"]]
    /\ sol = [r \in Runs |-> [path |-> <<>>, stats |-> [search_path |-> <<>>]]]
    /\ ax = [r \in Runs |-> <<>>]
    /\ animate = FALSE
    /\ rlast = [op |-> "-", frame |-> 0, from |-> [r \in Runs |-> 0]]
    /\ ndraws = 0

\* two solutions with the same path on the same graph, each with the trace
\* of its own search
InitRender ==
    /\ graph \in [Edges -> EdgeAttrs]
    /\ \E q \in Paths, ta \in Traces, tb \in Traces :
          sol = [r \in Runs |->
                   [path |-> [i \in 1..Len(q) |->
                                 StationNew(Concat(stations), q[i])],
                    stats |-> [search_path |-> IF r = "a" THEN ta ELSE tb]]]
    /\ ax = [r \in Runs |-> <<>>]
    /\ animate = FALSE
    /\ rlast = [op |-> "-", frame |-> 0, from |-> [r \in Runs |-> 0]]
    /\ ndraws = 0

----------------------------------------------------------------------------
(* Free use of the API: any call at any time *)

Init == InitPatch /\ InitThreads /\ Imported(SmallArchive) /\ RenderIdle

DoEnter == \E p \in Patches : Enter(p) /\ UNCHANGED <<threadVars, feedVars, renderVars>>
DoExit ==
    \E p \in Patches, exc \in BOOLEAN :
        Exit(p, exc) /\ UNCHANGED <<threadVars, feedVars, renderVars>>
DoLookup ==
    \E view \in Views, n \in Nodes, cut \in Cuts :
        Lookup(view, n, cut) /\ UNCHANGED <<threadVars, feedVars, renderVars>>

Next == DoEnter \/ DoExit \/ DoLookup

Spec == Init /\ [][Next]_vars

----------------------------------------------------------------------------
(* Properly nested use: with-blocks of one thread, the innermost exits first *)

WithExit ==
    /\ active # <<>>
    /\ \E exc \in BOOLEAN : Exit(active[Len(active)], exc)
    /\ UNCHANGED <<threadVars, feedVars, renderVars>>

NextNested == DoEnter \/ WithExit \/ DoLookup

SpecNested == Init /\ [][NextNested]_vars

----------------------------------------------------------------------------
(* Two threads, each running  with StatsPatch(g) as stats: <lookups>  *)

QEnter(q) ==
    /\ pc[q] = "start"
    /\ Enter(q)
    /\ pc' = [pc EXCEPT ![q] = "body"]
    /\ UNCHANGED <<own, feedVars, renderVars>>

QLookup(q) ==
    /\ pc[q] = "body"
    /\ \E view \in Views, n \in Nodes, cut \in Cuts :
          /\ Lookup(view, n, cut)
          /\ own' = [own EXCEPT ![q] = Append(@, n)]
    /\ UNCHANGED <<pc, feedVars, renderVars>>

QExit(q) ==
    /\ pc[q] = "body"
    /\ \E exc \in BOOLEAN : Exit(q, exc)
    /\ pc' = [pc EXCEPT ![q] = "done"]
    /\ UNCHANGED <<own, feedVars, renderVars>>

ThreadEnter == \E q \in Queries : QEnter(q)
ThreadLookup == \E q \in Queries : QLookup(q)
ThreadExit == \E q \in Queries : QExit(q)

NextPar == ThreadEnter \/ ThreadLookup \/ ThreadExit

SpecPar == Init /\ [][NextPar]_vars

----------------------------------------------------------------------------
(* Claims about StatsPatch *)

Tracing == active # <<>>

\* C3 as stated: while a search is being traced (some context entered and
\* not exited) AdjacencyView.__getitem__ is still the library's function.
C3_AccessorUntouchedWhileTracing == Tracing => getitem = Original

\* C3, amended: tracing does rebind the shared accessor.  A step of
\* __enter__ of instance p leaves the accessor bound to p's wrapper, which
\* is not the library's function, and keeps the function it replaced in
\* p._old_view_getitem; a step of __exit__ of p (after an __enter__) binds
\* the accessor to p._old_view_getitem; a lookup leaves the binding alone
\* and, made through the wrapper of p, delivers the key by appending it to
\* p.search_path and counting it in p.counter.
C3_TracingRebindsAccessor ==
    [][ /\ last'.op = "enter" =>
             /\ getitem' = Wrapper(last'.patch)
             /\ getitem' # Original
             /\ old_view_getitem'[last'.patch] = getitem
        /\ (last'.op = "exit" /\ old_view_getitem[last'.patch] # Unset) =>
             getitem' = old_view_getitem[last'.patch]
        /\ last'.op = "lookup" =>
             /\ getitem' = getitem
             /\ \A p \in Patches : getitem = Wrapper(p) =>
                   /\ Len(search_path'[p]) > Len(search_path[p])
                   /\ search_path'[p][Len(search_path[p]) + 1] = last'.key
                   /\ counter'[p] > counter[p]
      ]_vars

\* a lookup was traced by the wrapper of the innermost active context
C3_Witness ==
    /\ Tracing
    /\ getitem = Wrapper(active[Len(active)])
    /\ last.op = "lookup"
    /\ search_path[active[Len(active)]] # <<>>

\* C10: for every instance, counter is the length of search_path, and
\* search_path is exactly the keys looked up (on any view) while the
\* instance was entered and not exited, in lookup order.
C10_TraceIsLookupsWhileActive ==
    \A p \in Patches :
        /\ counter[p] = Len(search_path[p])
        /\ search_path[p] = during[p]

\* C9: with properly nested contexts, once every entered context has exited
\* the accessor is the library's function again, and every lookup made
\* while a context is active returns what the library's accessor returns.
C9_NestedExitsRestore ==
    /\ (nenters > 0 /\ ~Tracing) => getitem = Original
    /\ (last.op = "lookup" /\ Tracing) => last.ret = AtlasView(last.view, last.key)

\* C4: in every interleaving of two threads, each with its own StatsPatch,
\* each instance holds exactly the lookups of its own thread, and once both
\* threads have left their with-block the accessor is the library's function.
C4_ParallelQueriesIsolated ==
    /\ \A q \in Queries :
          /\ search_path[q] = own[q]
          /\ counter[q] = Len(own[q])
    /\ (\A q \in Queries : pc[q] = "done") => getitem = Original

----------------------------------------------------------------------------
(* The module's top-level code on the feeds of an archive, then Station *)

InitFeeds ==
    /\ InitPatch /\ InitThreads /\ RenderIdle
    /\ \E f1 \in StopsFiles, f2 \in StopsFiles :
          InitFeed(<<[name |-> Lines[1], stops |-> f1],
                     [name |-> Lines[2], stops |-> f2], OtherEntry>>)

NextFeed ==
    \/ LoadEntry /\ UNCHANGED <<patchVars, threadVars, renderVars>>
    \/ MergeStations /\ UNCHANGED <<patchVars, threadVars, renderVars>>
    \/ ProjectStations /\ UNCHANGED <<patchVars, threadVars, renderVars>>
    \/ NewStation /\ UNCHANGED <<patchVars, threadVars, renderVars>>
    \/ ReprStation /\ UNCHANGED <<patchVars, threadVars, renderVars>>

SpecFeed == InitFeeds /\ [][NextFeed]_vars

----------------------------------------------------------------------------
(* Rendering two solutions that have the same path *)

InitRenders ==
    /\ InitPatch /\ InitThreads /\ Imported(SmallArchive)
    /\ InitRender

NextRender ==
    \/ PlotPath /\ UNCHANGED <<patchVars, threadVars, feedVars>>
    \/ AnimatePath /\ UNCHANGED <<patchVars, threadVars, feedVars>>
    \/ Animate /\ UNCHANGED <<patchVars, threadVars, feedVars>>

SpecRender == InitRenders /\ [][NextRender]_vars

----------------------------------------------------------------------------
(* Claims about the station tables and the rendering *)

Merged == fpc \in {"project", "ready"}
IndexOf(table) == {table[i].stop_id : i \in 1..Len(table)}

\* C8: once the per-line tables are merged, every stop_id of the index
\* identifies exactly one row of all_stations (one name, one line) and
\* exactly one coordinate of pos, and a Station built from it has one name
\* and one line.
C8_StopIdIdentifiesOneStation ==
    /\ Merged =>
          \A id \in IndexOf(all_stations) : Len(Loc(all_stations, id)) = 1
    /\ fpc = "ready" =>
          \A id \in IndexOf(all_stations) :
              Cardinality({i \in 1..Len(pos) : pos[i].key = id}) = 1
    /\ (station.id # 0 /\ station.raised # "KeyError") =>
          /\ station.name.kind = "scalar"
          /\ station.line.kind = "scalar"
          /\ station.raised = "-"

\* the artists a rendering step has added to the axes of run r
Added(r) == SubSeq(ax'[r], rlast'.from[r] + 1, Len(ax'[r]))
Drawing(op) == ndraws' = ndraws + 1 /\ rlast'.op = op

\* C6 as stated: two solutions with the same path are drawn alike by every
\* rendering operation, whatever their search traces.
C6_DrawingIgnoresTrace ==
    (\A r \in Runs : sol[r].path = sol["a"].path) => ax["a"] = ax["b"]

\* C6, amended: plot_path and animate_path draw the same artists for two
\* solutions with the same path, whatever their traces; a frame animate(i)
\* draws, for each solution, one scatter of the projected positions of the
\* first i+1 entries of that solution's stats.search_path, and nothing
\* when that trace is empty.
C6_OnlyFramesDrawTrace ==
    [][ /\ (Drawing("plot_path") \/ Drawing("animate_path")) =>
             /\ Added("a") = Added("b")
             /\ Added("a") # <<>>
        /\ Drawing("animate") =>
             \A r \in Runs :
                LET t == Prefix(sol[r].stats.search_path, rlast'.frame) IN
                   /\ t = <<>> => Added(r) = <<>>
                   /\ t # <<>> =>
                        /\ Len(Added(r)) = 1
                        /\ Added(r)[1].kind = "scatter"
                        /\ Added(r)[1].xs = [k \in 1..Len(t) |-> Get(pos, t[k])[1]]
                        /\ Added(r)[1].ys = [k \in 1..Len(t) |-> Get(pos, t[k])[2]]
      ]_vars

\* a frame has been drawn and the two drawings differ
C6_Witness ==
    /\ rlast.op = "animate"
    /\ sol["a"].path = sol["b"].path
    /\ sol["a"].stats.search_path # sol["b"].stats.search_path
    /\ ax["a"] # ax["b"]

====
